---- MODULE Spec2Model ----
(***************************************************************************)
(* Model of backend/server.py: calculate_planetary_parameters, the         *)
(* habitability scorer.  One call is one behaviour: Init draws the ten     *)
(* arguments, the actions are the statements of the function in order.     *)
(*                                                                         *)
(* Arguments are scaled integers, one unit per field:                      *)
(*   D 1/100 AU, M 1/10 Earth mass, T kelvin, P 1/100000 bar, W integer,   *)
(*   B 1/10 gauss, theta degrees, R hours, G 1/100, X 1/100 sievert.       *)
(*                                                                         *)
(* Python floats (IEEE-754 binary64) are modelled by their magnitude: a    *)
(* record [k, lg] with k in {"zero","fin","inf","nan"} and, for "fin", lg  *)
(* the decimal logarithm of the value in units of 1/LgScale decade.  All   *)
(* values of the function are non-negative, so no sign is kept.  A product *)
(* below the smallest subnormal becomes zero and one above the largest     *)
(* double becomes inf, as in the interpreter.                              *)
(***************************************************************************)
EXTENDS Integers, Sequences, FiniteSets, TLC

VARIABLES args, pc, checked, f_T, f_P, f_W, f_B, f_G, f_X, C, P_L, raised,
          results

vars ==
    <<args, pc, checked, f_T, f_P, f_W, f_B, f_G, f_X, C, P_L, raised, results>>

-----------------------------------------------------------------------------
(* The literal 1 of lines 61, 63 and the scale of G and X, in the units of *)
(* P, B, G and X.                                                          *)
UnitP == 100000
UnitB == 10
UnitG == 100
UnitX == 100

(* The ranges of the validation, lines 35-54, in the units above. *)
D_min == 30
D_max == 3000
M_min == 1
M_max == 3000
T_min == 50
T_max == 900
P_min == 1
P_max == 10000000
B_min == 0
B_max == 150
theta_min == 0
theta_max == 98
R_min == 1
R_max == 5832
G_min == 0
G_max == 100
X_min == 1
X_max == 100000

(* Reference Earth value used by the temperature factor, line 57. *)
T_E == 288

-----------------------------------------------------------------------------
(* binary64 magnitudes in the logarithmic representation. *)

LgScale == 128

(* log10(2^-1075) * 128 = -41421.7: a result at or below it rounds to 0.0. *)
LgUnderflow == -41422
(* log10(2^1024) * 128 = 39456.6: a result at or above it is inf. *)
LgOverflow == 39457

Zero == [k |-> "zero", lg |-> 0]
Inf == [k |-> "inf", lg |-> 0]
NaN == [k |-> "nan", lg |-> 0]
Unset == [k |-> "unset", lg |-> 0]

Fin(l) ==
    IF l <= LgUnderflow THEN Zero
    ELSE IF l >= LgOverflow THEN Inf
    ELSE [k |-> "fin", lg |-> l]

One == Fin(0)

(* Mantissa fixed point: 4096 is 1.0, 40960 is 10.0. *)
Q == 4096

RECURSIVE LgBits(_, _, _)
(* Binary digits of log10(x / Q) for Q <= x < 10 Q, by repeated squaring. *)
LgBits(x, n, acc) ==
    IF n = 0 THEN acc
    ELSE LET s == (x * x) \div Q
         IN  IF s >= 10 * Q
             THEN LgBits(s \div 10, n - 1, 2 * acc + 1)
             ELSE LgBits(s, n - 1, 2 * acc)

RECURSIVE LgInt(_, _)
(* log10(n) * LgScale for an integer n >= 1; dec counts the decades taken out. *)
LgInt(n, dec) ==
    IF n >= 100000 THEN LgInt(n \div 10, dec + 1)
    ELSE IF n < 10000 THEN LgInt(n * 10, dec - 1)
    ELSE (dec + 4) * LgScale + LgBits((n * Q) \div 10000, 7, 0)

Lg(n) == LgInt(n, 0)

(* The float nearest the rational n / d, n >= 0, d > 0. *)
FromRatio(n, d) == IF n = 0 THEN Zero ELSE Fin(Lg(n) - Lg(d))

(* math.exp(-(n / d)) for n >= 0, d > 0: log10(e) * 128 = 55.59. *)
FExpNeg(n, d) == Fin(-((n * 5559) \div (d * 100)))

(* x * y *)
FMul(x, y) ==
    IF x.k = "nan" \/ y.k = "nan" THEN NaN
    ELSE IF x.k = "inf" \/ y.k = "inf"
         THEN IF x.k = "zero" \/ y.k = "zero" THEN NaN ELSE Inf
    ELSE IF x.k = "zero" \/ y.k = "zero" THEN Zero
    ELSE Fin(x.lg + y.lg)

(* 1 / x for x # 0 (the interpreter raises on x = 0 before dividing). *)
FRecip(x) ==
    IF x.k = "nan" THEN NaN
    ELSE IF x.k = "inf" THEN Zero
    ELSE Fin(-x.lg)

(* x <= y on the magnitudes. *)
FLeq(x, y) ==
    /\ x.k # "nan" /\ y.k # "nan"
    /\ \/ x.k = "zero"
       \/ y.k = "inf"
       \/ x.k = "fin" /\ y.k = "fin" /\ x.lg <= y.lg

(* min(x, y) and max(x, y) of the interpreter: the first argument unless the *)
(* second is strictly smaller (larger).                                       *)
FMin(x, y) == IF FLeq(y, x) /\ y # x THEN y ELSE x
FMax(x, y) == IF FLeq(x, y) /\ y # x THEN y ELSE x

Abs(i) == IF i < 0 THEN -i ELSE i

(* 10^(2^(i-1) / 128) in the mantissa fixed point, i = 1..7. *)
Pow10Tab == <<4170, 4246, 4402, 4730, 5462, 7284, 12953>>

RECURSIVE Pow10Frac(_, _, _)
(* 10^(r / 128) in the mantissa fixed point, 0 <= r < 128, bit by bit. *)
Pow10Frac(r, i, acc) ==
    IF i > 7 THEN acc
    ELSE Pow10Frac(r \div 2, i + 1,
                   IF r % 2 = 1 THEN (acc * Pow10Tab[i]) \div Q ELSE acc)

RECURSIVE Pow10Int(_)
Pow10Int(q) == IF q <= 0 THEN 1 ELSE 10 * Pow10Int(q - 1)

(* The integer nearest 10^(l / 128), for l < 5 decades. *)
Pow10(l) ==
    LET q == l \div LgScale
        m == Pow10Frac(l % LgScale, 1, Q)
    IN  IF q >= 0 THEN (2 * m * Pow10Int(q) + Q) \div (2 * Q)
        ELSE IF q < -5 THEN 0
        ELSE (2 * m + Q * Pow10Int(-q)) \div (2 * Q * Pow10Int(-q))

(* round(x, 2): the multiple of 0.01 nearest x.  From 1000 up the multiples  *)
(* of 0.01 lie closer together than the representation resolves, and inf and *)
(* nan are returned as they are.                                             *)
Round2(x) ==
    IF x.k # "fin" \/ x.lg >= 3 * LgScale THEN x
    ELSE FromRatio(Pow10(x.lg + 2 * LgScale), 100)

-----------------------------------------------------------------------------
(* The arguments. *)

Fields == <<"D", "M", "T", "P", "W", "B", "theta", "R", "G", "X">>

(* The Earth-like profile: D=1, M=1, T=288, P=1, W=1, B=0.5, theta=23, R=24, *)
(* G=1, X=0.01.                                                              *)
Earth ==
    [D |-> 100, M |-> 10, T |-> 288, P |-> 100000, W |-> 1, B |-> 5,
     theta |-> 23, R |-> 24, G |-> 100, X |-> 1]

(* The values an argument is drawn from: one unit below and above its range, *)
(* both endpoints, and values inside.                                        *)
Values ==
    [D |-> {D_min - 1, D_min, 100, D_max, D_max + 1},
     M |-> {M_min - 1, M_min, 10, M_max, M_max + 1},
     T |-> {T_min - 1, T_min, 288, T_max, T_max + 1},
     P |-> {P_min - 1, P_min, 100000, P_max, P_max + 1},
     W |-> {-1, 0, 1, 2},
     B |-> {B_min - 1, B_min, 5, B_max, B_max + 1},
     theta |-> {theta_min - 1, theta_min, 23, theta_max, theta_max + 1},
     R |-> {R_min - 1, R_min, 24, R_max, R_max + 1},
     G |-> {G_min - 1, G_min, 50, G_max, G_max + 1},
     X |-> {X_min - 1, X_min, 60000, 74000, X_max, X_max + 1}]

(* At most this many arguments of a call differ from the Earth-like profile. *)
MaxOffEarth == 2

FieldSet == {Fields[i] : i \in 1..Len(Fields)}

Pick(S, fld) == IF fld \in S THEN Values[fld] ELSE {Earth[fld]}

Profiles ==
    UNION {[D : Pick(S, "D"), M : Pick(S, "M"), T : Pick(S, "T"),
            P : Pick(S, "P"), W : Pick(S, "W"), B : Pick(S, "B"),
            theta : Pick(S, "theta"), R : Pick(S, "R"), G : Pick(S, "G"),
            X : Pick(S, "X")] :
           S \in {S \in SUBSET FieldSet : Cardinality(S) <= MaxOffEarth}}

-----------------------------------------------------------------------------
(* Validation, lines 35-54. *)

InRange(fld, v) ==
    CASE fld = "D" -> D_min <= v /\ v <= D_max
      [] fld = "M" -> M_min <= v /\ v <= M_max
      [] fld = "T" -> T_min <= v /\ v <= T_max
      [] fld = "P" -> P_min <= v /\ v <= P_max
      [] fld = "W" -> v \in {0, 1}
      [] fld = "B" -> B_min <= v /\ v <= B_max
      [] fld = "theta" -> theta_min <= v /\ v <= theta_max
      [] fld = "R" -> R_min <= v /\ v <= R_max
      [] fld = "G" -> G_min <= v /\ v <= G_max
      [] fld = "X" -> X_min <= v /\ v <= X_max

(* The message of each ValueError: the name it opens with, and the rest. *)
Message ==
    [D |-> [name |-> "Distance from Sun (D)",
            rest |-> "must be between 0.3 and 30 AU."],
     M |-> [name |-> "Planetary Mass (M)",
            rest |-> "must be between 0.1 and 300 Earth masses."],
     T |-> [name |-> "Surface Temperature (T)",
            rest |-> "must be between 50 and 900 K."],
     P |-> [name |-> "Atmospheric Pressure (P)",
            rest |-> "must be between 10^-5 and 100 bars."],
     W |-> [name |-> "Water Presence (W)",
            rest |-> "must be either 0 (No) or 1 (Yes)."],
     B |-> [name |-> "Magnetic Field Strength (B)",
            rest |-> "must be between 0 and 15 G."],
     theta |-> [name |-> "Axial Tilt (theta)",
                rest |-> "must be between 0 and 98 degrees."],
     R |-> [name |-> "Rotation Speed (R)",
            rest |-> "must be between 1 and 5832 hours."],
     G |-> [name |-> "Geological Activity (G)",
            rest |-> "must be between 0 and 1."],
     X |-> [name |-> "Radiation Levels (X)",
            rest |-> "must be between 0.01 and 1000 Sv."]]

(* Every error carries the message of the first check. *)
ValueErrorOfFirstCheck(fld) == [type |-> "ValueError", message |-> Message["D"]]

NoError == [type |-> "none", message |-> [name |-> "", rest |-> ""]]
ValueError(fld) == [type |-> "ValueError", message |-> Message[fld]]
ZeroDivisionError ==
    [type |-> "ZeroDivisionError",
     message |-> [name |-> "", rest |-> "float division by zero"]]

NoResults == [none |-> TRUE]

Init ==
    /\ args \in Profiles
    /\ pc = "D"
    /\ checked = <<>>
    /\ f_T = Unset /\ f_P = Unset /\ f_W = Unset
    /\ f_B = Unset /\ f_G = Unset /\ f_X = Unset
    /\ C = Unset /\ P_L = Unset
    /\ raised = NoError
    /\ results = NoResults

(* A check that records the error and goes on to the next line. *)
CheckWithoutStopping(fld, next) ==
    /\ pc = fld
    /\ checked' = Append(checked, fld)
    /\ pc' = next
    /\ raised' = IF InRange(fld, args[fld]) THEN raised ELSE ValueError(fld)
    /\ UNCHANGED <<args, f_T, f_P, f_W, f_B, f_G, f_X, C, P_L, results>>

(* One if statement of the validation: raise, or go on to the next line. *)
Check(fld, next) ==
    /\ pc = fld
    /\ checked' = Append(checked, fld)
    /\ IF InRange(fld, args[fld])
       THEN pc' = next /\ raised' = raised
       ELSE pc' = "raised" /\ raised' = ValueError(fld)
    /\ UNCHANGED <<args, f_T, f_P, f_W, f_B, f_G, f_X, C, P_L, results>>

CheckD == Check("D", "M")
CheckM == Check("M", "T")
CheckT == Check("T", "P")
CheckP == Check("P", "W")
CheckW == Check("W", "B")
CheckB == Check("B", "theta")
CheckTheta == Check("theta", "R")
CheckR == Check("R", "G")
CheckG == Check("G", "X")
CheckX == Check("X", "factors")

-----------------------------------------------------------------------------
(* The computation, lines 59-71. *)

Hundred == FromRatio(100, 1)

(* The geological factor scaled by the axial tilt. *)
FactorsWithTilt(a) ==
    [f_T |-> FMin(One, FMax(Zero, FExpNeg(Abs(a.T - T_E), T_E))),
     f_P |-> FromRatio(a.P, UnitP + a.P),
     f_W |-> FromRatio(a.W, 1),
     f_B |-> FromRatio(a.B, a.B + UnitB),
     f_G |-> FromRatio(a.G * a.theta, UnitG * 98),
     f_X |-> FExpNeg(a.X, UnitX)]

(* Habitability factors, lines 60-65. *)
Factors(a) ==
    [f_T |-> FMin(One, FMax(Zero, FExpNeg(Abs(a.T - T_E), T_E))),
     f_P |-> FromRatio(a.P, UnitP + a.P),
     f_W |-> FromRatio(a.W, 1),
     f_B |-> FromRatio(a.B, a.B + UnitB),
     f_G |-> FromRatio(a.G, UnitG),
     f_X |-> FExpNeg(a.X, UnitX)]

(* The product with the water factor left out. *)
ProductWithoutWater(f) ==
    FMul(FMul(FMul(FMul(f.f_T, f.f_P), f.f_B), f.f_G), f.f_X)

(* f_T * f_P * f_W * f_B * f_G * f_X, left to right, line 68. *)
Product(f) ==
    FMul(FMul(FMul(FMul(FMul(f.f_T, f.f_P), f.f_W), f.f_B), f.f_G), f.f_X)

(* 100 * C * f_T * f_P * f_W * f_B * f_G * f_X, left to right, line 71. *)
Probability(c, f) ==
    FMul(FMul(FMul(FMul(FMul(FMul(FMul(Hundred, c), f.f_T), f.f_P), f.f_W),
                   f.f_B), f.f_G), f.f_X)

(* The two strings the wrong way round. *)
WaterPresenceInverted(w) == IF w = 1 THEN "No" ELSE "Yes"

(* "Yes" if W == 1 else "No", line 79. *)
WaterPresence(w) == IF w = 1 THEN "Yes" ELSE "No"

(* The mass entry filled from the distance. *)
ResultsMassFromDistance(a, pl) ==
    ("Distance from Sun (AU)" :> a.D)
    @@ ("Planetary Mass (Earth Masses)" :> a.D)
    @@ ("Surface Temperature (K)" :> a.T)
    @@ ("Atmospheric Pressure (bars)" :> a.P)
    @@ ("Water Presence" :> WaterPresence(a.W))
    @@ ("Magnetic Field Strength (G)" :> a.B)
    @@ ("Axial Tilt (deg)" :> a.theta)
    @@ ("Rotation Speed (hours)" :> a.R)
    @@ ("Geological Activity" :> a.G)
    @@ ("Radiation Levels (Sv)" :> a.X)
    @@ ("Habitability Probability (0-100)" :> Round2(pl))

(* The dictionary of lines 74-86. *)
Results(a, pl) ==
    ("Distance from Sun (AU)" :> a.D)
    @@ ("Planetary Mass (Earth Masses)" :> a.M)
    @@ ("Surface Temperature (K)" :> a.T)
    @@ ("Atmospheric Pressure (bars)" :> a.P)
    @@ ("Water Presence" :> WaterPresence(a.W))
    @@ ("Magnetic Field Strength (G)" :> a.B)
    @@ ("Axial Tilt (deg)" :> a.theta)
    @@ ("Rotation Speed (hours)" :> a.R)
    @@ ("Geological Activity" :> a.G)
    @@ ("Radiation Levels (Sv)" :> a.X)
    @@ ("Habitability Probability (0-100)" :> Round2(pl))

CurrentFactors ==
    [f_T |-> f_T, f_P |-> f_P, f_W |-> f_W, f_B |-> f_B, f_G |-> f_G,
     f_X |-> f_X]

ComputeFactors ==
    /\ pc = "factors"
    /\ LET f == Factors(args)
       IN  /\ f_T' = f.f_T /\ f_P' = f.f_P /\ f_W' = f.f_W
           /\ f_B' = f.f_B /\ f_G' = f.f_G /\ f_X' = f.f_X
    /\ pc' = "C"
    /\ UNCHANGED <<args, checked, C, P_L, raised, results>>

(* A division that yields inf on a zero divisor and raises nothing. *)
ComputeCWithoutRaising ==
    /\ pc = "C"
    /\ LET prod == Product(CurrentFactors)
       IN  C' = IF prod.k = "zero" THEN Inf ELSE FRecip(prod)
    /\ pc' = "P_L"
    /\ UNCHANGED <<args, checked, f_T, f_P, f_W, f_B, f_G, f_X, P_L, raised,
                   results>>

(* Line 68: the division raises when the product is zero. *)
ComputeC ==
    /\ pc = "C"
    /\ LET prod == Product(CurrentFactors)
       IN  IF prod.k = "zero"
           THEN /\ pc' = "raised"
                /\ raised' = ZeroDivisionError
                /\ C' = C
           ELSE /\ pc' = "P_L"
                /\ raised' = raised
                /\ C' = FRecip(prod)
    /\ UNCHANGED <<args, checked, f_T, f_P, f_W, f_B, f_G, f_X, P_L, results>>

ComputePL ==
    /\ pc = "P_L"
    /\ P_L' = Probability(C, CurrentFactors)
    /\ pc' = "results"
    /\ UNCHANGED <<args, checked, f_T, f_P, f_W, f_B, f_G, f_X, C, raised,
                   results>>

Return ==
    /\ pc = "results"
    /\ results' = Results(args, P_L)
    /\ pc' = "returned"
    /\ UNCHANGED <<args, checked, f_T, f_P, f_W, f_B, f_G, f_X, C, P_L, raised>>

Next ==
    \/ CheckD \/ CheckM \/ CheckT \/ CheckP \/ CheckW
    \/ CheckB \/ CheckTheta \/ CheckR \/ CheckG \/ CheckX
    \/ ComputeFactors \/ ComputeC \/ ComputePL \/ Return

Spec == Init /\ [][Next]_vars

-----------------------------------------------------------------------------
(* The whole call as a function of its arguments: the outcome the actions   *)
(* above end in.                                                            *)

FirstInvalid(a) ==
    LET bad == {i \in 1..Len(Fields) : ~InRange(Fields[i], a[Fields[i]])}
    IN  IF bad = {} THEN 0 ELSE CHOOSE i \in bad : \A j \in bad : i <= j

Call(a) ==
    IF FirstInvalid(a) # 0
    THEN [pc |-> "raised", raised |-> ValueError(Fields[FirstInvalid(a)]),
          results |-> NoResults]
    ELSE LET f == Factors(a)
             prod == Product(f)
         IN  IF prod.k = "zero"
             THEN [pc |-> "raised", raised |-> ZeroDivisionError,
                   results |-> NoResults]
             ELSE [pc |-> "returned", raised |-> NoError,
                   results |-> Results(a, Probability(FRecip(prod), f))]

-----------------------------------------------------------------------------
(* The statements checked.  The domains are those of the data model, in the *)
(* units of the arguments.                                                  *)

SpecDomain ==
    [D |-> 30..3000, M |-> 1..3000, T |-> 50..900, P |-> 1..10000000,
     W |-> {0, 1}, B |-> 0..150, theta |-> 0..98, R |-> 1..5832,
     G |-> 0..100, X |-> 1..100000]

(* The two endpoints of each closed interval (W has a two-element set). *)
SpecEndpoints ==
    [D |-> {30, 3000}, M |-> {1, 3000}, T |-> {50, 900}, P |-> {1, 10000000},
     W |-> {}, B |-> {0, 150}, theta |-> {0, 98}, R |-> {1, 5832},
     G |-> {0, 100}, X |-> {1, 100000}]

OutOfDomain(a) == {fld \in FieldSet : a[fld] \notin SpecDomain[fld]}
Valid(a) == OutOfDomain(a) = {}
Done == pc \in {"returned", "raised"}
ProbabilityKey == "Habitability Probability (0-100)"

(* C1: for every valid profile whose six factors are all strictly positive  *)
(* the call returns a report whose probability field is exactly 100.00.     *)
(* Stated on the factors the function computes; violated by X = 740 Sv,     *)
(* where 100 * C overflows.                                                 *)
C1_AlwaysHundred ==
    (/\ Done
     /\ Valid(args)
     /\ \A f \in {f_T, f_P, f_W, f_B, f_G, f_X} : f.k = "fin")
    => /\ pc = "returned"
       /\ results[ProbabilityKey] = Hundred

(* C2: when exactly one field is outside its domain and the nine others are *)
(* valid, the call fails with a ValueError whose message names that field,  *)
(* and no report is returned.                                               *)
C2_InvalidFieldNamed ==
    \A fld \in FieldSet :
        (Done /\ OutOfDomain(args) = {fld})
        => /\ pc = "raised"
           /\ raised.type = "ValueError"
           /\ raised.message.name = Message[fld].name
           /\ results = NoResults

C2_Witness ==
    /\ pc = "raised"
    /\ OutOfDomain(args) = {"theta"}
    /\ raised.message.name = "Axial Tilt (theta)"

(* C3: with one field at an endpoint of its closed interval and the nine    *)
(* others Earth-like, the call returns a report and raises no error.        *)
(* Violated by B = 0, G = 0 and X = 1000.                                   *)
C3_EndpointsSucceed ==
    \A fld \in FieldSet :
        \A v \in SpecEndpoints[fld] :
            (Done /\ args = [Earth EXCEPT ![fld] = v])
            => pc = "returned" /\ raised = NoError

(* C4: validation checks the fields in the order D, M, T, P, W, B, theta,   *)
(* R, G, X and stops at the first violation: the error names the earliest   *)
(* invalid field, and no later field is checked.                            *)
C4_FirstViolationOnly ==
    /\ checked = SubSeq(Fields, 1, Len(checked))
    /\ \A j \in 1..Len(checked) :
           args[checked[j]] \notin SpecDomain[checked[j]]
           => /\ j = Len(checked)
              /\ pc = "raised"
              /\ raised.type = "ValueError"
              /\ raised.message = Message[checked[j]]
    /\ (Done /\ ~Valid(args))
       => /\ pc = "raised"
          /\ raised.type = "ValueError"
          /\ \A fld \in OutOfDomain(args) \ {checked[Len(checked)]} :
                 \A j \in 1..Len(checked) : checked[j] # fld

C4_Witness ==
    /\ pc = "raised"
    /\ OutOfDomain(args) = {"T", "G"}
    /\ raised.message.name = "Surface Temperature (T)"
    /\ Len(checked) = 3

(* C5: a valid call with W = 0 passes validation, finds the factor product  *)
(* zero at the computation of C and ends in an error, never in a report.    *)
C5_NoWaterFails ==
    (Valid(args) /\ args.W = 0)
    => /\ pc # "returned"
       /\ results = NoResults
       /\ Done => /\ Len(checked) = Len(Fields)
                  /\ f_W = Zero
                  /\ C = Unset
                  /\ raised.type = "ZeroDivisionError"

C5_Witness ==
    /\ Done
    /\ Valid(args)
    /\ args.W = 0
    /\ raised.type = "ZeroDivisionError"

C7_MassAndTiltIgnored ==
    (Done /\ Valid(args))
    => \A m \in Values.M \cap SpecDomain.M :
           \A th \in Values.theta \cap SpecDomain.theta :
               LET other == Call([args EXCEPT !.M = m, !.theta = th])
               IN  /\ other.pc = pc
                   /\ other.raised.type = raised.type
                   /\ pc = "returned"
                      => other.results[ProbabilityKey] = results[ProbabilityKey]

C7_Witness ==
    /\ pc = "returned"
    /\ args.M = 3000
    /\ args.theta = 0

(* C8: a returned report has exactly eleven fields, the ten inputs and the  *)
(* probability; D, M, T, P, B, theta, R, G, X hold the values passed in and *)
(* only W is re-expressed, as "Yes" or "No".                                *)
C8_ReportEchoesInputs ==
    pc = "returned"
    => /\ Cardinality(DOMAIN results) = 11
       /\ ProbabilityKey \in DOMAIN results
       /\ results["Distance from Sun (AU)"] = args.D
       /\ results["Planetary Mass (Earth Masses)"] = args.M
       /\ results["Surface Temperature (K)"] = args.T
       /\ results["Atmospheric Pressure (bars)"] = args.P
       /\ results["Water Presence"] \in {"Yes", "No"}
       /\ results["Magnetic Field Strength (G)"] = args.B
       /\ results["Axial Tilt (deg)"] = args.theta
       /\ results["Rotation Speed (hours)"] = args.R
       /\ results["Geological Activity"] = args.G
       /\ results["Radiation Levels (Sv)"] = args.X

C8_Witness ==
    /\ pc = "returned"
    /\ args.D = 3000
    /\ args.M = 1
    /\ results["Distance from Sun (AU)"] = 3000
    /\ results["Planetary Mass (Earth Masses)"] = 1

(* C9: in every returned report the probability lies in [0, 100].  Violated *)
(* by X = 740 Sv, where the field is inf.                                   *)
C9_ProbabilityWithinScale ==
    pc = "returned"
    => /\ FLeq(Zero, results[ProbabilityKey])
       /\ FLeq(results[ProbabilityKey], Hundred)

====
